---- MODULE Spec2Model ----
(***************************************************************************)
(* Multi-round inference tutorial (tutorials/03_multiround_inference.ipynb) *)
(* as a state machine.  The state is the notebook's global namespace plus   *)
(* the position of the kernel in the cell sequence; one action per          *)
(* statement of the two multi-round loops (the "Main syntax" cell and the   *)
(* "Linear Gaussian" cell) and one per remaining code cell.                 *)
(*                                                                          *)
(* The sbi library objects (prior, trainer, density estimator, posterior)   *)
(* are records; the library calls are operators written from the external   *)
(* interface description (add_data/train/build/set_default_x).              *)
(***************************************************************************)
EXTENDS Integers, Sequences, FiniteSets, TLC

VARIABLES
    pc,                 \* statement the kernel executes next
    cell,               \* code cell being executed (execution_count 2..7)
    iter,               \* iterations of `for _ in range(num_rounds)` started
    num_rounds,         \* notebook global
    x_o,                \* notebook global: target observation
    prior,              \* notebook global
    simulator,          \* notebook global
    inference,          \* notebook global: the SNPE trainer
    posteriors,         \* notebook global: list of posteriors
    proposal,           \* notebook global
    theta,              \* notebook global: last parameter batch
    x,                  \* notebook global: last observation batch
    density_estimator,  \* notebook global
    posterior,          \* notebook global
    posterior_samples,  \* notebook global (cell 7)
    calls               \* history: library calls made so far, in order

vars == << pc, cell, iter, num_rounds, x_o, prior, simulator, inference,
           posteriors, proposal, theta, x, density_estimator, posterior,
           posterior_samples, calls >>

----------------------------------------------------------------------------
(* Bounds *)

MaxRounds == 3          \* largest round count tried for num_rounds
MaxEpochs == 2          \* distinct training outcomes per train() call

(* Program constants *)

num_dim == 3            \* num_dim = 3
NumSimulations == 500   \* num_simulations=500
NumSamples == 10000     \* posterior.sample((10000,), ...)

RoundCounts == 0 .. MaxRounds
Epochs == 1 .. MaxEpochs

----------------------------------------------------------------------------
(* Values of the notebook's globals *)

\* a name that has not been assigned yet
Undefined == [kind |-> "undefined"]

\* no observation (an unassigned x_o, a posterior without default x)
NoObservation == << >>

\* torch.zeros(n)
zeros(n) == [k \in 1 .. n |-> 0]

\* BoxUniform(low=-2*ones(num_dim), high=2*ones(num_dim))
BoxUniform(low, high) ==
    [kind |-> "prior", low |-> low, high |-> high, prepared |-> FALSE]

\* lambda theta: theta + torch.randn_like(theta) * 0.1   (noise in tenths)
lambda_simulator ==
    [kind |-> "simulator", name |-> "lambda", offset |-> 0, noise_tenths |-> 1,
     prepared |-> FALSE]

\* def linear_gaussian(theta): return theta + 1.0 + torch.randn_like(theta)*0.1
linear_gaussian ==
    [kind |-> "simulator", name |-> "linear_gaussian", offset |-> 1,
     noise_tenths |-> 1, prepared |-> FALSE]

----------------------------------------------------------------------------
(* Library calls *)

\* prepare_for_sbi(simulator, prior) -> (simulator, prior)
prepare_for_sbi(sim, pr) ==
    << [sim EXCEPT !.prepared = TRUE], [pr EXCEPT !.prepared = TRUE] >>

\* SNPE(prior): a trainer with an empty accumulated dataset
SNPE(pr) == [kind |-> "SNPE", prior |-> pr, dataset |-> << >>]

\* simulate_for_sbi(simulator, proposal, num_simulations) -> (theta, x):
\* a batch of parameters sampled from the proposal and the matching batch
\* of observations
simulate_for_sbi(sim, prop, n) ==
    << [kind |-> "theta", n |-> n, sampled_from |-> prop],
       [kind |-> "x", n |-> n, simulated_by |-> sim] >>

\* inference.append_simulations(theta, x, proposal) -> self
append_simulations(inf, th, xs, prop) ==
    [inf EXCEPT !.dataset =
        Append(@, [theta |-> th, x |-> xs, proposal |-> prop])]

\* number of (parameter, observation) pairs the trainer holds
RECURSIVE DatasetSize(_)
DatasetSize(ds) ==
    IF ds = << >> THEN 0 ELSE ds[1].theta.n + DatasetSize(Tail(ds))

\* inference.train() -> density_estimator, fitted on the whole dataset;
\* the loss is corrected ("atomic") once a non-prior proposal is present
train(inf, epochs) ==
    [kind |-> "density_estimator",
     trained_on |-> inf.dataset,
     loss |-> IF \E k \in 1 .. Len(inf.dataset) :
                     inf.dataset[k].proposal # inf.prior
              THEN "atomic" ELSE "maximum_likelihood",
     epochs |-> epochs]

\* inference.build_posterior(density_estimator) -> posterior
build_posterior(inf, de, id) ==
    [kind |-> "posterior", id |-> id, estimator |-> de, prior |-> inf.prior,
     default_x |-> NoObservation]

\* posterior.set_default_x(x) -> distribution usable as next proposal
set_default_x(post, obs) == [post EXCEPT !.default_x = obs]

\* posterior.sample((n,), x=x)
sample(post, n, obs) ==
    [kind |-> "samples", n |-> n, of |-> post.id, conditioned_on |-> obs]

----------------------------------------------------------------------------
(* Initial state: a fresh kernel, nothing assigned *)

Init ==
    /\ pc = "cell"
    /\ cell = 2
    /\ iter = 0
    /\ num_rounds = 0
    /\ x_o = NoObservation
    /\ prior = Undefined
    /\ simulator = Undefined
    /\ inference = Undefined
    /\ posteriors = << >>
    /\ proposal = Undefined
    /\ theta = Undefined
    /\ x = Undefined
    /\ density_estimator = Undefined
    /\ posterior = Undefined
    /\ posterior_samples = Undefined
    /\ calls = << >>

InLoop == pc \in {"for", "simulate", "append", "train", "build", "push", "set_proposal"}

Call(op, arg) == [op |-> op, cell |-> cell, round |-> iter, arg |-> arg]

----------------------------------------------------------------------------
(* Cell 2, up to the loop: the Main syntax set-up *)

MainSetup ==
    /\ pc = "cell" /\ cell = 2
    /\ \E R \in RoundCounts : num_rounds' = R
    /\ x_o' = zeros(num_dim)
    /\ prior' = BoxUniform(-2, 2)
    /\ simulator' = lambda_simulator
    /\ inference' = SNPE(prior')
    /\ posteriors' = << >>
    /\ proposal' = prior'
    /\ iter' = 0
    /\ pc' = "for"
    /\ UNCHANGED << cell, theta, x, density_estimator, posterior,
                    posterior_samples, calls >>

(* as ForNext, but over range(num_rounds + 1) *)
ForNext_OffByOne ==
    /\ pc = "for"
    /\ iter < num_rounds + 1
    /\ iter' = iter + 1
    /\ pc' = "simulate"
    /\ UNCHANGED << cell, num_rounds, x_o, prior, simulator, inference,
                    posteriors, proposal, theta, x, density_estimator,
                    posterior, posterior_samples, calls >>

(* for _ in range(num_rounds): next iteration *)
ForNext ==
    /\ pc = "for"
    /\ iter < num_rounds
    /\ iter' = iter + 1
    /\ pc' = "simulate"
    /\ UNCHANGED << cell, num_rounds, x_o, prior, simulator, inference,
                    posteriors, proposal, theta, x, density_estimator,
                    posterior, posterior_samples, calls >>

(* as ForExit, but also leaving the loop once training converged quickly *)
ForExit_Converged ==
    /\ pc = "for"
    /\ \/ iter >= num_rounds
       \/ iter >= 1 /\ density_estimator.epochs = 1
    /\ pc' = "cell"
    /\ cell' = cell + 1
    /\ UNCHANGED << iter, num_rounds, x_o, prior, simulator, inference,
                    posteriors, proposal, theta, x, density_estimator,
                    posterior, posterior_samples, calls >>

(* for _ in range(num_rounds): range exhausted, the cell ends *)
ForExit ==
    /\ pc = "for"
    /\ iter >= num_rounds
    /\ pc' = "cell"
    /\ cell' = cell + 1
    /\ UNCHANGED << iter, num_rounds, x_o, prior, simulator, inference,
                    posteriors, proposal, theta, x, density_estimator,
                    posterior, posterior_samples, calls >>

(* theta, x = simulate_for_sbi(simulator, proposal, num_simulations=500) *)
Simulate ==
    /\ pc = "simulate"
    /\ LET r == simulate_for_sbi(simulator, proposal, NumSimulations)
       IN  /\ theta' = r[1]
           /\ x' = r[2]
    /\ calls' = Append(calls, Call("simulate", proposal))
    /\ pc' = "append"
    /\ UNCHANGED << cell, iter, num_rounds, x_o, prior, simulator, inference,
                    posteriors, proposal, density_estimator, posterior,
                    posterior_samples >>

(* as AppendSimulations, but the batch is always tagged with the prior *)
AppendSimulations_PriorTag ==
    /\ pc = "append"
    /\ inference' = append_simulations(inference, theta, x, prior)
    /\ calls' = Append(calls, Call("append", prior))
    /\ pc' = "train"
    /\ UNCHANGED << cell, iter, num_rounds, x_o, prior, simulator, posteriors,
                    proposal, theta, x, density_estimator, posterior,
                    posterior_samples >>

(* as AppendSimulations, but training is only run in the first round *)
AppendSimulations_TrainOnce ==
    /\ pc = "append"
    /\ inference' = append_simulations(inference, theta, x, proposal)
    /\ calls' = Append(calls, Call("append", proposal))
    /\ pc' = IF iter = 1 THEN "train" ELSE "build"
    /\ UNCHANGED << cell, iter, num_rounds, x_o, prior, simulator, posteriors,
                    proposal, theta, x, density_estimator, posterior,
                    posterior_samples >>

(* as AppendSimulations, but on a trainer created afresh in every round *)
AppendSimulations_FreshTrainer ==
    /\ pc = "append"
    /\ inference' = append_simulations(SNPE(prior), theta, x, proposal)
    /\ calls' = Append(calls, Call("append", proposal))
    /\ pc' = "train"
    /\ UNCHANGED << cell, iter, num_rounds, x_o, prior, simulator, posteriors,
                    proposal, theta, x, density_estimator, posterior,
                    posterior_samples >>

(* inference.append_simulations(theta, x, proposal=proposal) *)
AppendSimulations ==
    /\ pc = "append"
    /\ inference' = append_simulations(inference, theta, x, proposal)
    /\ calls' = Append(calls, Call("append", proposal))
    /\ pc' = "train"
    /\ UNCHANGED << cell, iter, num_rounds, x_o, prior, simulator, posteriors,
                    proposal, theta, x, density_estimator, posterior,
                    posterior_samples >>

(* as Train, but fitted on the newest round record alone *)
Train_LastBatchOnly ==
    /\ pc = "train"
    /\ \E e \in Epochs :
           density_estimator' =
               train([inference EXCEPT !.dataset = << @[Len(@)] >>], e)
    /\ calls' = Append(calls, Call("train", 1))
    /\ pc' = "build"
    /\ UNCHANGED << cell, iter, num_rounds, x_o, prior, simulator, inference,
                    posteriors, proposal, theta, x, posterior,
                    posterior_samples >>

(* density_estimator = (...).train() *)
Train ==
    /\ pc = "train"
    /\ \E e \in Epochs : density_estimator' = train(inference, e)
    /\ calls' = Append(calls, Call("train", Len(inference.dataset)))
    /\ pc' = "build"
    /\ UNCHANGED << cell, iter, num_rounds, x_o, prior, simulator, inference,
                    posteriors, proposal, theta, x, posterior,
                    posterior_samples >>

(* posterior = inference.build_posterior(density_estimator) *)
BuildPosterior ==
    /\ pc = "build"
    /\ posterior' = build_posterior(inference, density_estimator,
                                    << cell, iter >>)
    /\ calls' = Append(calls, Call("build", density_estimator))
    /\ pc' = "push"
    /\ UNCHANGED << cell, iter, num_rounds, x_o, prior, simulator, inference,
                    posteriors, proposal, theta, x, density_estimator,
                    posterior_samples >>

(* as AppendPosterior, but the list is rebuilt with the newest first *)
AppendPosterior_Prepend ==
    /\ pc = "push"
    /\ posteriors' = << posterior >> \o posteriors
    /\ calls' = Append(calls, Call("push", posterior.id))
    /\ pc' = "set_proposal"
    /\ UNCHANGED << cell, iter, num_rounds, x_o, prior, simulator, inference,
                    proposal, theta, x, density_estimator, posterior,
                    posterior_samples >>

(* posteriors.append(posterior) *)
AppendPosterior ==
    /\ pc = "push"
    /\ posteriors' = Append(posteriors, posterior)
    /\ calls' = Append(calls, Call("push", posterior.id))
    /\ pc' = "set_proposal"
    /\ UNCHANGED << cell, iter, num_rounds, x_o, prior, simulator, inference,
                    proposal, theta, x, density_estimator, posterior,
                    posterior_samples >>

(* as SetProposal, but every round keeps sampling from the prior *)
SetProposal_KeepPrior ==
    /\ pc = "set_proposal"
    /\ proposal' = prior
    /\ calls' = Append(calls, Call("set_default_x", x_o))
    /\ pc' = "for"
    /\ UNCHANGED << cell, iter, num_rounds, x_o, prior, simulator, inference,
                    posteriors, theta, x, density_estimator, posterior,
                    posterior_samples >>

(* as SetProposal, but the posterior is not conditioned on x_o *)
SetProposal_Unconditioned ==
    /\ pc = "set_proposal"
    /\ proposal' = posterior
    /\ calls' = Append(calls, Call("set_default_x", x_o))
    /\ pc' = "for"
    /\ UNCHANGED << cell, iter, num_rounds, x_o, prior, simulator, inference,
                    posteriors, theta, x, density_estimator, posterior,
                    posterior_samples >>

(* proposal = posterior.set_default_x(x_o) *)
SetProposal ==
    /\ pc = "set_proposal"
    /\ proposal' = set_default_x(posterior, x_o)
    /\ calls' = Append(calls, Call("set_default_x", x_o))
    /\ pc' = "for"
    /\ UNCHANGED << cell, iter, num_rounds, x_o, prior, simulator, inference,
                    posteriors, theta, x, density_estimator, posterior,
                    posterior_samples >>

(* as Raise, but the exception is swallowed and the loop goes on with the
   next round *)
Raise_Continue ==
    /\ pc \in {"simulate", "append", "train", "build"}
    /\ pc' = "for"
    /\ UNCHANGED << cell, iter, num_rounds, x_o, prior, simulator, inference,
                    posteriors, proposal, theta, x, density_estimator,
                    posterior, posterior_samples, calls >>

(* an exception raised by the simulator, the trainer or the posterior
   builder: nothing catches it, the cell and the run end *)
Raise ==
    /\ pc \in {"simulate", "append", "train", "build"}
    /\ pc' = "raised"
    /\ UNCHANGED << cell, iter, num_rounds, x_o, prior, simulator, inference,
                    posteriors, proposal, theta, x, density_estimator,
                    posterior, posterior_samples, calls >>

----------------------------------------------------------------------------
(* Cells 3..7 *)

(* cell 3: def linear_gaussian(theta) *)
DefineLinearGaussian ==
    /\ pc = "cell" /\ cell = 3
    /\ cell' = 4
    /\ UNCHANGED << pc, iter, num_rounds, x_o, prior, simulator, inference,
                    posteriors, proposal, theta, x, density_estimator,
                    posterior, posterior_samples, calls >>

(* cell 4: simulator, prior = prepare_for_sbi(linear_gaussian, prior) *)
PrepareForSbi ==
    /\ pc = "cell" /\ cell = 4
    /\ LET r == prepare_for_sbi(linear_gaussian, prior)
       IN  /\ simulator' = r[1]
           /\ prior' = r[2]
    /\ cell' = 5
    /\ UNCHANGED << pc, iter, num_rounds, x_o, inference, posteriors, proposal,
                    theta, x, density_estimator, posterior, posterior_samples,
                    calls >>

(* as InstantiateInference, but the trainer of the first run is kept *)
InstantiateInference_Reuse ==
    /\ pc = "cell" /\ cell = 5
    /\ inference' = [inference EXCEPT !.prior = prior]
    /\ cell' = 6
    /\ UNCHANGED << pc, iter, num_rounds, x_o, prior, simulator, posteriors,
                    proposal, theta, x, density_estimator, posterior,
                    posterior_samples, calls >>

(* cell 5: inference = SNPE(prior=prior) *)
InstantiateInference ==
    /\ pc = "cell" /\ cell = 5
    /\ inference' = SNPE(prior)
    /\ cell' = 6
    /\ UNCHANGED << pc, iter, num_rounds, x_o, prior, simulator, posteriors,
                    proposal, theta, x, density_estimator, posterior,
                    posterior_samples, calls >>

(* cell 6, up to the loop: the Linear Gaussian set-up *)
LinearGaussianSetup ==
    /\ pc = "cell" /\ cell = 6
    /\ \E R \in RoundCounts : num_rounds' = R
    /\ x_o' = zeros(3)
    /\ posteriors' = << >>
    /\ proposal' = prior
    /\ iter' = 0
    /\ pc' = "for"
    /\ UNCHANGED << cell, prior, simulator, inference, theta, x,
                    density_estimator, posterior, posterior_samples, calls >>

(* as SamplePosterior, but sampling the first entry of `posteriors` *)
SamplePosterior_First ==
    /\ pc = "cell" /\ cell = 7
    /\ posterior.kind = "posterior"
    /\ posterior_samples' =
           sample(IF posteriors = << >> THEN posterior ELSE posteriors[1],
                  NumSamples, x_o)
    /\ calls' = Append(calls, Call("sample", x_o))
    /\ pc' = "done"
    /\ UNCHANGED << cell, iter, num_rounds, x_o, prior, simulator, inference,
                    posteriors, proposal, theta, x, density_estimator,
                    posterior >>

(* cell 7: posterior_samples = posterior.sample((10000,), x=x_o) *)
SamplePosterior ==
    /\ pc = "cell" /\ cell = 7
    /\ posterior.kind = "posterior"
    /\ posterior_samples' = sample(posterior, NumSamples, x_o)
    /\ calls' = Append(calls, Call("sample", x_o))
    /\ pc' = "done"
    /\ UNCHANGED << cell, iter, num_rounds, x_o, prior, simulator, inference,
                    posteriors, proposal, theta, x, density_estimator,
                    posterior >>

(* cell 7 when no loop iteration ever assigned `posterior`: NameError *)
SampleNameError ==
    /\ pc = "cell" /\ cell = 7
    /\ posterior.kind = "undefined"
    /\ pc' = "raised"
    /\ UNCHANGED << cell, iter, num_rounds, x_o, prior, simulator, inference,
                    posteriors, proposal, theta, x, density_estimator,
                    posterior, posterior_samples, calls >>

----------------------------------------------------------------------------

Next ==
    \/ MainSetup
    \/ ForNext
    \/ ForExit
    \/ Simulate
    \/ AppendSimulations
    \/ Train
    \/ BuildPosterior
    \/ AppendPosterior
    \/ SetProposal
    \/ Raise
    \/ DefineLinearGaussian
    \/ PrepareForSbi
    \/ InstantiateInference
    \/ LinearGaussianSetup
    \/ SamplePosterior
    \/ SampleNameError

Spec == Init /\ [][Next]_vars

\* the kernel runs the cells to completion: a statement that can execute does
FairSpec == Spec /\ WF_vars(Next)

----------------------------------------------------------------------------
(* Positions *)

\* the cell whose loop was entered last
Run == IF cell < 6 \/ (cell = 6 /\ pc = "cell") THEN 2 ELSE 6

\* the kernel is inside the body of round `iter`, before posteriors.append
BeforePush ==
    \/ pc \in {"simulate", "append", "train", "build", "push"}
    \/ pc = "raised" /\ cell \in {2, 6}

\* the loop of the current run has been left through range exhaustion
LoopExited == pc \in {"cell", "done"} /\ cell > Run

\* rounds of the current run that have appended their posterior
RoundsPushed == IF BeforePush THEN iter - 1 ELSE iter

IsPrefix(s, t) == Len(s) <= Len(t) /\ SubSeq(t, 1, Len(s)) = s

----------------------------------------------------------------------------
(* C1: the proposal passed to simulate_for_sbi in round k is the prior when
   k = 1 and, when k > 1, the posterior built in round k-1 conditioned on
   x_o by set_default_x; the batch is sampled from nothing else. *)
C1_ProposalPerRound ==
    pc = "append" =>
        LET c == calls[Len(calls)]
        IN  /\ c.op = "simulate" /\ c.cell = cell /\ c.round = iter
            /\ theta.sampled_from = c.arg
            /\ iter = 1 => c.arg = prior
            /\ iter > 1 =>
                   /\ c.arg = set_default_x(posteriors[iter - 1], x_o)
                   /\ c.arg.default_x = zeros(num_dim)
                   /\ posteriors[iter - 1].id = << cell, iter - 1 >>
                   /\ Len(posteriors[iter - 1].estimator.trained_on) = iter - 1

C1_Witness ==
    /\ pc = "append" /\ cell = 6 /\ iter = 2
    /\ theta.sampled_from.kind = "posterior"

----------------------------------------------------------------------------
(* C2: `posteriors` has one entry per round that has reached
   posteriors.append, its i-th entry is the posterior built in round i of the
   current run, it holds exactly num_rounds entries once the loop has been
   left, and inside the loop a step either leaves the list alone or appends
   one entry to it. *)
C2_PosteriorsInv ==
    /\ Len(posteriors) = RoundsPushed
    /\ \A i \in 1 .. Len(posteriors) :
           /\ posteriors[i].kind = "posterior"
           /\ posteriors[i].id = << Run, i >>
    /\ LoopExited => Len(posteriors) = num_rounds

C2_PosteriorsStep ==
    InLoop =>
        \/ posteriors' = posteriors
        \/ /\ Len(posteriors') = Len(posteriors) + 1
           /\ IsPrefix(posteriors, posteriors')

C2_PosteriorsInOrder == [] C2_PosteriorsInv /\ [][C2_PosteriorsStep]_vars

C2_Witness ==
    /\ LoopExited /\ cell = 7 /\ num_rounds = 2
    /\ Len(posteriors) = 2
    /\ posteriors[1] # posteriors[2]

(* C3: after round k the trainer holds NumSimulations * k (parameter,
   observation) pairs, the sum of the batches of rounds 1..k; inside the
   loop the dataset only ever grows at its end, so no earlier round's data is
   dropped. *)
C3_DatasetInv ==
    /\ pc \in {"for", "train", "build", "push", "set_proposal"} =>
           /\ Len(inference.dataset) = iter
           /\ DatasetSize(inference.dataset) = NumSimulations * iter
    /\ LoopExited /\ cell \in {3, 7} =>
           DatasetSize(inference.dataset) = NumSimulations * num_rounds

C3_DatasetStep == InLoop => IsPrefix(inference.dataset, inference'.dataset)

C3_DatasetGrows == [] C3_DatasetInv /\ [][C3_DatasetStep]_vars

C3_Witness ==
    /\ pc = "for" /\ iter = 2 /\ cell = 6
    /\ DatasetSize(inference.dataset) = 1000

----------------------------------------------------------------------------
\* number of logged calls of `op` made by the loop of cell c
CallCount(op, c) ==
    Cardinality({k \in 1 .. Len(calls) : calls[k].op = op /\ calls[k].cell = c})

(* C4: a loop that has been entered is always left; unless an exception
   ends the run it is left only when num_rounds iterations have been made,
   whatever the training outcomes were, and then simulate_for_sbi, train and
   build_posterior have each been called num_rounds times. *)
C4_ExitStep ==
    InLoop /\ ~InLoop' =>
        \/ pc' = "raised"
        \/ /\ iter' = num_rounds'
           /\ CallCount("simulate", cell) = num_rounds
           /\ CallCount("train", cell) = num_rounds
           /\ CallCount("build", cell) = num_rounds

C4_FixedRoundCount == [][C4_ExitStep]_vars /\ (InLoop ~> ~InLoop)

C4_Witness ==
    /\ LoopExited /\ cell = 7 /\ num_rounds = 3
    /\ CallCount("train", 6) = 3
    /\ \E i, j \in 1 .. 3 :
           posteriors[i].estimator.epochs # posteriors[j].estimator.epochs

(* C5: with num_rounds = 1 the run is single-round inference: the only
   proposal sampled from is the prior, the dataset holds one round record
   tagged with the prior, one model is trained (with the uncorrected loss)
   and one posterior is produced. *)
C5_SingleRound ==
    num_rounds = 1 /\ (InLoop \/ (LoopExited /\ cell \in {3, 7})) =>
        /\ \A k \in 1 .. Len(calls) :
               calls[k].cell = Run /\ calls[k].op \in {"simulate", "append"}
                   => calls[k].arg = prior
        /\ \A k \in 1 .. Len(inference.dataset) :
               /\ inference.dataset[k].proposal = prior
               /\ inference.dataset[k].theta.sampled_from = prior
        /\ LoopExited =>
               /\ CallCount("simulate", Run) = 1
               /\ CallCount("train", Run) = 1
               /\ Len(inference.dataset) = 1
               /\ Len(posteriors) = 1
               /\ posteriors[1].estimator.loss = "maximum_likelihood"
               /\ posteriors[1].estimator.trained_on = inference.dataset

C5_Witness ==
    /\ num_rounds = 1 /\ LoopExited /\ cell = 7
    /\ Len(posteriors) = 1
    /\ CallCount("simulate", 2) > 1

\* a proposal, a batch or a posterior that stems from the loop of cell c
StemsFrom(v, c) == v.kind = "posterior" /\ v.id[1] = c

(* C6: each loop starts from proposal = prior, posteriors = [] and a trainer
   with an empty dataset; in the Linear Gaussian run nothing the loop works
   on (proposal, dataset records, posteriors) stems from the Main syntax
   run. *)
C6_FreshRun ==
    /\ pc = "for" /\ iter = 0 =>
           /\ proposal = prior
           /\ posteriors = << >>
           /\ inference = SNPE(prior)
    /\ Run = 6 /\ pc # "cell" =>
           /\ ~StemsFrom(proposal, 2)
           /\ inference.prior = prior
           /\ \A k \in 1 .. Len(inference.dataset) :
                  /\ ~StemsFrom(inference.dataset[k].proposal, 2)
                  /\ ~StemsFrom(inference.dataset[k].theta.sampled_from, 2)
                  /\ inference.dataset[k].x.simulated_by = simulator
           /\ \A i \in 1 .. Len(posteriors) : ~StemsFrom(posteriors[i], 2)

C6_Witness ==
    /\ cell = 6 /\ pc = "for" /\ iter = 0
    /\ StemsFrom(posterior, 2)
    /\ CallCount("append", 2) = 2

----------------------------------------------------------------------------
\* the dataset holds a round record whose proposal is not the trainer's prior
ProposalDependent(inf) ==
    \E k \in 1 .. Len(inf.dataset) : inf.dataset[k].proposal # inf.prior

\* every round record the posterior was trained on was drawn from the prior
Amortized(post) ==
    \A k \in 1 .. Len(post.estimator.trained_on) :
        post.estimator.trained_on[k].proposal = post.prior

(* C8: once a second round has added its data the trainer's dataset is
   proposal-dependent; the posterior of round 1 is the only amortized one,
   every later posterior is trained on records drawn from proposals that are
   posteriors conditioned on the one target observation x_o (and with the
   corrected loss). *)
C8_NotAmortized ==
    /\ (InLoop \/ LoopExited) /\ ~(cell = 6 /\ pc = "cell") /\ RoundsPushed > 1
           => ProposalDependent(inference)
    /\ \A i \in 1 .. Len(posteriors) :
           LET p == posteriors[i]
           IN  /\ Amortized(p) <=> i = 1
               /\ p.estimator.loss = "atomic" <=> ~Amortized(p)
               /\ \A k \in 1 .. Len(p.estimator.trained_on) :
                      LET q == p.estimator.trained_on[k].proposal
                      IN  q # p.prior =>
                              /\ q.kind = "posterior"
                              /\ q.default_x = x_o
                              /\ x_o = zeros(num_dim)

C8_Witness ==
    /\ pc = "for" /\ cell = 6 /\ iter = 2
    /\ ProposalDependent(inference)
    /\ ~Amortized(posteriors[2])

----------------------------------------------------------------------------
\* the library calls of one round, in program order
RoundSteps ==
    << "simulate", "append", "train", "build", "push", "set_default_x" >>

\* the logged calls of the loop of cell c
LoopCalls(c) == SelectSeq(calls, LAMBDA e : e.cell = c)

\* calls the current round has made, by position
StepsDone ==
    CASE pc = "simulate" -> 0
      [] pc = "append" -> 1
      [] pc = "train" -> 2
      [] pc = "build" -> 3
      [] pc = "push" -> 4
      [] pc = "set_proposal" -> 5
      [] OTHER -> Len(RoundSteps)

(* C10: the calls of each loop are made in the order simulate, append,
   train, build posterior, append posterior, set proposal, round after
   round: the j-th call of round k is call number (k-1)*6 + j of the loop,
   so every call of round k precedes every call of round k+1. *)
C10_Sequential ==
    /\ \A c \in {2, 6} :
           LET s == LoopCalls(c)
           IN  \A k \in 1 .. Len(s) :
                   /\ s[k].op = RoundSteps[((k - 1) % Len(RoundSteps)) + 1]
                   /\ s[k].round = ((k - 1) \div Len(RoundSteps)) + 1
    /\ \A j, k \in 1 .. Len(calls) : j < k => calls[j].cell <= calls[k].cell
    /\ InLoop /\ pc # "for" =>
           Len(LoopCalls(cell)) = (iter - 1) * Len(RoundSteps) + StepsDone

C10_Witness ==
    /\ pc = "train" /\ cell = 6 /\ iter = 3
    /\ Len(LoopCalls(6)) = 14

----------------------------------------------------------------------------
(* C11: every round record of the trainer carries as its tag the proposal
   its parameter batch was sampled from (the append_simulations call gets
   the argument the simulate_for_sbi call before it got), and its parameter
   batch and observation batch both have NumSimulations entries. *)
C11_TaggedWithProposal ==
    /\ inference.kind = "SNPE" =>
           \A k \in 1 .. Len(inference.dataset) :
               LET rec == inference.dataset[k]
               IN  /\ rec.proposal = rec.theta.sampled_from
                   /\ rec.theta.n = NumSimulations
                   /\ rec.x.n = rec.theta.n
    /\ \A k \in 1 .. Len(calls) :
           calls[k].op = "append" =>
               /\ k > 1
               /\ calls[k - 1].op = "simulate"
               /\ calls[k - 1].round = calls[k].round
               /\ calls[k - 1].arg = calls[k].arg

C11_Witness ==
    /\ pc = "train" /\ cell = 6 /\ iter = 2
    /\ inference.dataset[2].proposal.kind = "posterior"
    /\ inference.dataset[1].proposal.kind = "prior"

(* C12: the estimator returned by the training call of round k is fitted
   on all k round records of the trainer, and the posterior appended in
   round k wraps that estimator: posteriors[i] is built from an estimator
   fitted on exactly the first i records. *)
C12_TrainedOnAll ==
    /\ pc \in {"build", "push", "set_proposal"} =>
           /\ density_estimator.trained_on = inference.dataset
           /\ Len(density_estimator.trained_on) = iter
    /\ pc \in {"push", "set_proposal"} =>
           posterior.estimator = density_estimator
    /\ (InLoop \/ LoopExited) /\ ~(cell = 6 /\ pc = "cell") =>
           \A i \in 1 .. Len(posteriors) :
               /\ Len(posteriors[i].estimator.trained_on) = i
               /\ posteriors[i].estimator.trained_on =
                      SubSeq(inference.dataset, 1, i)

C12_Witness ==
    /\ pc = "set_proposal" /\ cell = 6 /\ iter = 3
    /\ Len(posteriors[3].estimator.trained_on) = 3
    /\ posteriors[3].estimator.epochs # posteriors[2].estimator.epochs

----------------------------------------------------------------------------
\* the statements of the loop body that call the simulator, the trainer or
\* the posterior builder
Fallible == {"simulate", "append", "train", "build"}

\* a step in which such a call does not return: it is left without the call
\* having been logged
CallFails == pc \in Fallible /\ pc' # pc /\ calls' = calls

(* C13: a call of round k that fails ends the run: the step changes nothing
   but the position, which becomes the terminal "raised"; from there no
   further step is taken, and `posteriors` holds the k-1 posteriors of the
   completed rounds. *)
C13_FailureInv ==
    pc = "raised" /\ cell \in {2, 6} =>
        /\ Len(posteriors) = iter - 1
        /\ \A i \in 1 .. Len(posteriors) : posteriors[i].id = << cell, i >>
        /\ \A k \in 1 .. Len(calls) :
               calls[k].cell = cell => calls[k].round <= iter

C13_FailureStep ==
    /\ CallFails =>
           /\ pc' = "raised"
           /\ << cell, iter, num_rounds, x_o, prior, simulator, inference,
                 posteriors, proposal, theta, x, density_estimator, posterior,
                 posterior_samples >>' =
              << cell, iter, num_rounds, x_o, prior, simulator, inference,
                 posteriors, proposal, theta, x, density_estimator, posterior,
                 posterior_samples >>
    /\ pc = "raised" => vars' = vars

C13_FailureEndsRun == [] C13_FailureInv /\ [][C13_FailureStep]_vars

C13_Witness ==
    /\ pc = "raised" /\ cell = 6 /\ iter = 3
    /\ Len(posteriors) = 2
    /\ Len(inference.dataset) = 3

----------------------------------------------------------------------------
\* the simulate_for_sbi calls of the loop of cell c whose proposal is of
\* the given kind
SimulateCalls(c, kind) ==
    {k \in 1 .. Len(calls) :
        calls[k].op = "simulate" /\ calls[k].cell = c /\ calls[k].arg.kind = kind}

\* the round records whose parameters were sampled from a proposal of the
\* given kind
RecordsDrawnFrom(kind) ==
    SelectSeq(inference.dataset, LAMBDA r : r.theta.sampled_from.kind = kind)

\* the observations passed by the loop of cell c and by the final sampling
ObservationsUsed(c) ==
    {calls[k].arg : k \in {j \in 1 .. Len(calls) :
        calls[j].op \in {"set_default_x", "sample"} /\ calls[j].cell \in {c, 7}}}

(* C14: when a loop has ended after num_rounds >= 1 rounds, `posterior` is
   the last entry of `posteriors`; the proposal left by the last
   set_default_x call has not been sampled from; one simulate_for_sbi call
   drew its NumSimulations parameters from the prior and the other
   num_rounds - 1 calls from conditioned posteriors; and the final sample
   call draws from that last posterior, with the same x_o every conditioning
   of the run used. *)
C14_FinalPosterior ==
    LoopExited /\ cell \in {3, 7} /\ num_rounds >= 1 =>
        /\ posterior = posteriors[Len(posteriors)]
        /\ posterior.id = << Run, num_rounds >>
        /\ proposal = set_default_x(posterior, x_o)
        /\ \A k \in 1 .. Len(calls) :
               calls[k].op = "simulate" => calls[k].arg # proposal
        /\ \A k \in 1 .. Len(inference.dataset) :
               inference.dataset[k].theta.sampled_from # proposal
        /\ Cardinality(SimulateCalls(Run, "prior")) = 1
        /\ Cardinality(SimulateCalls(Run, "posterior")) = num_rounds - 1
        /\ DatasetSize(RecordsDrawnFrom("prior")) = NumSimulations
        /\ DatasetSize(RecordsDrawnFrom("posterior"))
               = (num_rounds - 1) * NumSimulations
        /\ ObservationsUsed(Run) = {x_o}
        /\ x_o = zeros(num_dim)
        /\ pc = "done" =>
               /\ posterior_samples.of = posteriors[num_rounds].id
               /\ posterior_samples.conditioned_on = x_o
               /\ posterior_samples.n = NumSamples

C14_Witness ==
    /\ pc = "done" /\ num_rounds = 3
    /\ posterior_samples.of = << 6, 3 >>
    /\ Cardinality(SimulateCalls(6, "posterior")) = 2

====
